---- MODULE Spec2Model ----
(***************************************************************************)
(* Queue-and-virtual-timer engine of erod-ticket (src/app.py,              *)
(* src/models.py).                                                         *)
(*                                                                         *)
(* State: the persons table, the singleton settings row, the wall clock,   *)
(* the last HTTP response, the order in which the passed rows became       *)
(* passed (history), and the position of every in-flight /api/status       *)
(* request inside process_timer_advances.                                  *)
(*                                                                         *)
(* Time is counted in ticks of 1/TicksPerSecond second, so that            *)
(* total_seconds() is fractional and int() truncates.  Every handler, and  *)
(* every committed step of a concurrent request, reads datetime.utcnow()   *)
(* at a tick strictly later than the step before it.                       *)
(* Person.name and Person.added_at are never read by the engine and are    *)
(* left out of the rows.                                                   *)
(***************************************************************************)
EXTENDS Integers, Sequences, FiniteSets, TLC

VARIABLES persons, setting, now, resp, passed_log, inflight

vars == <<persons, setting, now, resp, passed_log, inflight>>

---------------------------------------------------------------------------
(* Bounds of the model *)

MaxPersons == 3
MaxTime == 7
TicksPerSecond == 2
MaxSeconds == 2
NumWorkers == 2

(* Program constants *)

DefaultTourLength == 300
SecondsPerMinute == 60

(* SQL NULL / Python None for the nullable integer and datetime columns *)
None == -1000000

Ids == 1..MaxPersons
Workers == 1..NumWorkers

---------------------------------------------------------------------------
(* Python helpers *)

(* the largest element: the last row of a list ordered ascending *)
Max(S) == CHOOSE x \in S : \A y \in S : y <= x

(* truthiness of a nullable integer: `w.position and ...`, `x or y` *)
Truthy(x) == x # None /\ x # 0

(* int(num / den): truncation toward zero, den > 0 *)
PyInt(num, den) == IF num >= 0 THEN num \div den ELSE 0 - ((0 - num) \div den)

(* timedelta(seconds=n) in ticks *)
timedelta(n) == n * TicksPerSecond

(* max(int(tour_length_seconds - elapsed), 0) with elapsed = (t - start).total_seconds() *)
RemainingAt(S, t) ==
    LET r == PyInt(timedelta(S.tour_length_seconds) - (t - S.start_time), TicksPerSecond)
    IN  IF r > 0 THEN r ELSE 0

compute_time_remaining_seconds(S, t) ==
    IF S.timer_paused THEN S.time_remaining_on_pause
    ELSE IF S.start_time = None THEN None
    ELSE RemainingAt(S, t)

---------------------------------------------------------------------------
(* Queries *)

WaitingIds(P) == {i \in DOMAIN P : P[i].status = "waiting"}
PassedIds(P) == {i \in DOMAIN P : P[i].status = "passed"}

(* get_waiting(): the waiting rows; their order is by position *)
get_waiting(P) == WaitingIds(P)

(* filter_by(status='waiting').order_by(position).first(): any row of minimal position *)
first_waiting(P) ==
    {i \in WaitingIds(P) : \A j \in WaitingIds(P) : P[i].position <= P[j].position}

(* filter_by(status='passed').order_by(passed_at.desc()).first(): any row of maximal passed_at *)
last_passed(P) ==
    {i \in PassedIds(P) : \A j \in PassedIds(P) : P[j].passed_at <= P[i].passed_at}

(* what a handler leaves behind: the rows, the settings, the HTTP status, the
   person it answers with, and the rows it marked passed, in that order *)
OutcomeP(P, S, code, id, passed) ==
    [persons |-> P, setting |-> S, code |-> code, id |-> id, passed |-> passed]
Outcome(P, S, code, id) == OutcomeP(P, S, code, id, <<>>)

(* the pop without `first.status = 'passed'`: the row is stamped and loses its
   position but stays waiting *)
PopFirst_keeps_waiting(P, f, stamp) ==
    [i \in DOMAIN P |->
        IF i = f THEN [P[i] EXCEPT !.position = None, !.passed_at = stamp]
        ELSE IF P[i].status = "waiting" /\ Truthy(P[i].position)
                /\ P[i].position > P[f].position
             THEN [P[i] EXCEPT !.position = @ - 1]
             ELSE P[i]]

(* the pop without `first.position = None`: the passed row keeps its position *)
PopFirst_keeps_position(P, f, stamp) ==
    [i \in DOMAIN P |->
        IF i = f THEN [P[i] EXCEPT !.status = "passed", !.passed_at = stamp]
        ELSE IF P[i].status = "waiting" /\ Truthy(P[i].position)
                /\ P[i].position > P[f].position
             THEN [P[i] EXCEPT !.position = @ - 1]
             ELSE P[i]]

(* mark row f passed at `stamp`, decrement every waiting position behind it *)
PopFirst(P, f, stamp) ==
    [i \in DOMAIN P |->
        IF i = f THEN [status |-> "passed", position |-> None, passed_at |-> stamp]
        ELSE IF P[i].status = "waiting" /\ Truthy(P[i].position)
                /\ P[i].position > P[f].position
             THEN [P[i] EXCEPT !.position = @ - 1]
             ELSE P[i]]

---------------------------------------------------------------------------
(* process_timer_advances, one loop iteration in two committed halves *)

(* the pop stamping the row with the wall clock instead of the end of its
   interval *)
pop_step_stamps_now(P, S, tour_len, t) ==
    IF S.start_time = None
    THEN {[persons |-> P, setting |-> S, more |-> FALSE, first |-> 0]}
    ELSE IF t - S.start_time < timedelta(tour_len)
    THEN {[persons |-> P, setting |-> S, more |-> FALSE, first |-> 0]}
    ELSE IF first_waiting(P) = {}
    THEN {[persons |-> P,
           setting |-> [S EXCEPT !.start_time = None, !.time_remaining_on_pause = None],
           more |-> FALSE, first |-> 0]}
    ELSE {[persons |-> PopFirst(P, f, t),
           setting |-> S, more |-> TRUE, first |-> f] : f \in first_waiting(P)}

(* lines 76-104: the loop test, then pop the head and commit.  `more` tells
   whether the iteration goes on to the anchor update of lines 106-111 *)
pop_step(P, S, tour_len, t) ==
    IF S.start_time = None
    THEN {[persons |-> P, setting |-> S, more |-> FALSE, first |-> 0]}
    ELSE IF t - S.start_time < timedelta(tour_len)
    THEN {[persons |-> P, setting |-> S, more |-> FALSE, first |-> 0]}
    ELSE IF first_waiting(P) = {}
    THEN {[persons |-> P,
           setting |-> [S EXCEPT !.start_time = None, !.time_remaining_on_pause = None],
           more |-> FALSE, first |-> 0]}
    ELSE {[persons |-> PopFirst(P, f, S.start_time + timedelta(tour_len)),
           setting |-> S, more |-> TRUE, first |-> f] : f \in first_waiting(P)}

(* lines 106-111: move start_time forward by one tour length, or clear it *)
anchor_step(P, S, tour_len) ==
    IF get_waiting(P) # {}
    THEN [S EXCEPT !.start_time = IF @ = None THEN None ELSE @ + timedelta(tour_len)]
    ELSE [S EXCEPT !.start_time = None]

(* the loop written as an `if`: a single pass, then the answer *)
timer_loop_once(P, S, tour_len, t, popped) ==
    { IF r.more
      THEN OutcomeP(r.persons, anchor_step(r.persons, r.setting, tour_len), 200, 0,
                    Append(popped, r.first))
      ELSE OutcomeP(r.persons, r.setting, 200, 0, popped)
    : r \in pop_step(P, S, tour_len, t) }

(* the while loop of lines 75-112; popped is the rows passed so far *)
RECURSIVE timer_loop(_, _, _, _, _)
timer_loop(P, S, tour_len, t, popped) ==
    UNION { IF r.more
            THEN timer_loop(r.persons, anchor_step(r.persons, r.setting, tour_len),
                            tour_len, t, Append(popped, r.first))
            ELSE {OutcomeP(r.persons, r.setting, 200, 0, popped)}
          : r \in pop_step(P, S, tour_len, t) }

(* the states the loop of lines 75-111 leaves in the database, one after each
   db.session.commit(): after the pop (104), after the anchor update (111),
   after the clearing of line 87 *)
RECURSIVE timer_commits(_, _, _, _)
timer_commits(P, S, tour_len, t) ==
    UNION { IF r.more
            THEN LET S1 == anchor_step(r.persons, r.setting, tour_len)
                 IN  {[persons |-> r.persons, setting |-> r.setting],
                      [persons |-> r.persons, setting |-> S1]}
                     \cup timer_commits(r.persons, S1, tour_len, t)
            ELSE {[persons |-> r.persons, setting |-> r.setting]}
          : r \in pop_step(P, S, tour_len, t) }

(* the number of passes through the body of `while True` (lines 75-111), the
   pass that breaks included; the count stops at `limit` passes *)
RECURSIVE timer_iterations(_, _, _, _, _)
timer_iterations(P, S, tour_len, t, limit) ==
    IF limit = 0
    THEN {0}
    ELSE UNION { IF r.more
                 THEN {n + 1 : n \in timer_iterations(r.persons,
                                        anchor_step(r.persons, r.setting, tour_len),
                                        tour_len, t, limit - 1)}
                 ELSE {1}
               : r \in pop_step(P, S, tour_len, t) }

process_timer_advances(P, S, t) ==
    IF S.timer_paused \/ S.start_time = None
    THEN {Outcome(P, S, 200, 0)}
    ELSE timer_loop(P, S, S.tour_length_seconds, t, <<>>)

---------------------------------------------------------------------------
(* Queue mutations.  Each yields the set of outcomes the database may give *)

add_person(P, S, t) ==
    LET waiting == get_waiting(P)
        last_pos == Max({P[i].position : i \in waiting})
        max_pos == IF waiting # {}
                   THEN (IF Truthy(last_pos) THEN last_pos ELSE Cardinality(waiting))
                   ELSE 0
        new_person == [status |-> "waiting", position |-> max_pos + 1, passed_at |-> None]
        S1 == IF S.start_time = None /\ ~S.timer_paused
              THEN [S EXCEPT !.start_time = t]
              ELSE IF S.start_time = None /\ S.timer_paused
                      /\ S.time_remaining_on_pause = None
              THEN [S EXCEPT !.time_remaining_on_pause = S.tour_length_seconds]
              ELSE S
    IN  {Outcome(Append(P, new_person), S1, 201, Len(P) + 1)}

advance_next(P, S, t) ==
    IF first_waiting(P) = {}
    THEN {Outcome(P, S, 400, 0)}
    ELSE { LET P1 == PopFirst(P, f, t)
               S1 == [S EXCEPT !.start_time = IF get_waiting(P1) # {} THEN t ELSE None]
               S2 == IF S1.timer_paused
                     THEN [S1 EXCEPT !.time_remaining_on_pause = S1.tour_length_seconds]
                     ELSE S1
           IN  OutcomeP(P1, S2, 200, f, <<f>>)
         : f \in first_waiting(P) }

go_back(P, S, t) ==
    IF last_passed(P) = {}
    THEN {Outcome(P, S, 400, 0)}
    ELSE { LET P1 == [i \in DOMAIN P |->
                        IF i = b
                        THEN [status |-> "waiting", position |-> 1, passed_at |-> None]
                        ELSE IF P[i].status = "waiting"
                        THEN [P[i] EXCEPT !.position = (IF Truthy(@) THEN @ ELSE 0) + 1]
                        ELSE P[i]]
               S1 == IF ~S.timer_paused
                     THEN [S EXCEPT !.start_time = t]
                     ELSE [S EXCEPT !.time_remaining_on_pause = S.tour_length_seconds]
           IN  Outcome(P1, S1, 200, b)
         : b \in last_passed(P) }

(* lines 203-208: the timer reset at the end of reorder_waiting *)
reset_timer(S, t) ==
    IF ~S.timer_paused
    THEN [S EXCEPT !.start_time = t]
    ELSE [S EXCEPT !.time_remaining_on_pause = S.tour_length_seconds]

(* reorder_waiting with the membership test inside the update loop: the ids
   before the first foreign one are written before the request is refused *)
reorder_waiting_partial(P, S, ids, t) ==
    IF Len(ids) = 0
    THEN {Outcome(P, S, 400, 0)}
    ELSE LET bad == {k \in 1..Len(ids) : ids[k] \notin WaitingIds(P)}
             n == IF bad = {} THEN Len(ids)
                  ELSE (CHOOSE k \in bad : \A j \in bad : k <= j) - 1
             P1 == [i \in DOMAIN P |->
                      IF \E k \in 1..n : ids[k] = i
                      THEN [P[i] EXCEPT !.position = Max({k \in 1..n : ids[k] = i})]
                      ELSE P[i]]
         IN  IF bad # {}
             THEN {Outcome(P1, S, 400, 0)}
             ELSE {Outcome(P1, reset_timer(S, t), 200, 0)}

(* reorder_waiting writing the zero-based index of enumerate as position *)
reorder_waiting_zero_based(P, S, ids, t) ==
    IF Len(ids) = 0
    THEN {Outcome(P, S, 400, 0)}
    ELSE IF \E k \in 1..Len(ids) : ids[k] \notin WaitingIds(P)
    THEN {Outcome(P, S, 400, 0)}
    ELSE LET P1 == [i \in DOMAIN P |->
                      IF \E k \in 1..Len(ids) : ids[k] = i
                      THEN [P[i] EXCEPT !.position = Max({k \in 1..Len(ids) : ids[k] = i}) - 1]
                      ELSE P[i]]
         IN  {Outcome(P1, reset_timer(S, t), 200, 0)}

(* api_reorder + reorder_waiting: ids is the JSON list, front to back *)
reorder_waiting(P, S, ids, t) ==
    IF Len(ids) = 0
    THEN {Outcome(P, S, 400, 0)}
    ELSE IF \E k \in 1..Len(ids) : ids[k] \notin WaitingIds(P)
    THEN {Outcome(P, S, 400, 0)}
    ELSE LET P1 == [i \in DOMAIN P |->
                      IF \E k \in 1..Len(ids) : ids[k] = i
                      THEN [P[i] EXCEPT !.position = Max({k \in 1..Len(ids) : ids[k] = i})]
                      ELSE P[i]]
         IN  {Outcome(P1, reset_timer(S, t), 200, 0)}

(* lines 379-389: reset the timer after a move *)
move_timer(P, S, t) ==
    IF ~S.timer_paused
    THEN [S EXCEPT !.start_time = IF first_waiting(P) # {} THEN t ELSE None]
    ELSE [S EXCEPT !.time_remaining_on_pause = S.tour_length_seconds]

move_person_to(P, S, person_id, to_status, to_position, t) ==
    IF person_id \notin DOMAIN P
    THEN {Outcome(P, S, 400, 0)}
    ELSE LET p == P[person_id]
             n == Cardinality(WaitingIds(P))
         IN
         IF to_status = "waiting" /\ p.status = "passed"
         THEN LET insert_pos == IF to_position = None \/ to_position < 1
                                THEN 1
                                ELSE (IF n + 1 < to_position THEN n + 1 ELSE to_position)
                  P1 == [i \in DOMAIN P |->
                           IF i = person_id
                           THEN [status |-> "waiting", position |-> insert_pos,
                                 passed_at |-> None]
                           ELSE IF P[i].status = "waiting" /\ Truthy(P[i].position)
                                   /\ P[i].position >= insert_pos
                           THEN [P[i] EXCEPT !.position = @ + 1]
                           ELSE P[i]]
              IN  {Outcome(P1, move_timer(P1, S, t), 200, person_id)}
         ELSE IF to_status = "waiting"
         THEN IF to_position = None
              THEN {Outcome(P, S, 200, person_id)}
              ELSE LET capped == IF n < to_position THEN n ELSE to_position
                       to_pos == IF capped < 1 THEN 1 ELSE capped
                       old_pos == p.position
                       P1 == [i \in DOMAIN P |->
                                IF i = person_id
                                THEN [P[i] EXCEPT !.position = to_pos]
                                ELSE IF P[i].status # "waiting" THEN P[i]
                                ELSE IF old_pos > to_pos
                                THEN (IF P[i].position >= to_pos /\ P[i].position < old_pos
                                      THEN [P[i] EXCEPT !.position = @ + 1] ELSE P[i])
                                ELSE (IF P[i].position <= to_pos /\ P[i].position > old_pos
                                      THEN [P[i] EXCEPT !.position = @ - 1] ELSE P[i])]
                   IN  IF old_pos = to_pos
                       THEN {Outcome(P, S, 200, person_id)}
                       ELSE {Outcome(P1, move_timer(P1, S, t), 200, person_id)}
         ELSE IF to_status = "passed"
         THEN LET P1 == [i \in DOMAIN P |->
                           IF i = person_id
                           THEN [status |-> "passed", position |-> None, passed_at |-> t]
                           ELSE IF p.status = "waiting" /\ P[i].status = "waiting"
                                   /\ Truthy(P[i].position) /\ P[i].position > p.position
                           THEN [P[i] EXCEPT !.position = @ - 1]
                           ELSE P[i]]
              IN  {OutcomeP(P1, move_timer(P1, S, t), 200, person_id, <<person_id>>)}
         ELSE {Outcome(P, S, 400, 0)}

(* api_pause: toggles between resume (when paused) and pause (when running) *)
toggle_pause(P, S, t) ==
    IF S.timer_paused
    THEN LET R == IF S.time_remaining_on_pause = None
                  THEN S.tour_length_seconds ELSE S.time_remaining_on_pause
         IN  {Outcome(P, [S EXCEPT !.start_time = t - timedelta(S.tour_length_seconds - R),
                                   !.time_remaining_on_pause = None,
                                   !.timer_paused = FALSE], 200, 0)}
    ELSE LET R == IF S.start_time = None THEN S.tour_length_seconds ELSE RemainingAt(S, t)
         IN  {Outcome(P, [S EXCEPT !.time_remaining_on_pause = R,
                                   !.timer_paused = TRUE], 200, 0)}

(* api_set_tour_length that keeps the running anchor and the frozen
   remainder, so that the time already elapsed still counts *)
set_tour_length_prorated(P, S, data, t) ==
    IF data.minutes = None /\ data.seconds = None
    THEN {Outcome(P, S, 400, 0)}
    ELSE LET len == IF data.minutes # None
                    THEN data.minutes * SecondsPerMinute
                    ELSE data.seconds
         IN  {Outcome(P, [S EXCEPT !.tour_length_seconds = len], 200, 0)}

(* api_set_tour_length: data is the JSON body, None for an absent key *)
set_tour_length(P, S, data, t) ==
    IF data.minutes = None /\ data.seconds = None
    THEN {Outcome(P, S, 400, 0)}
    ELSE LET len == IF data.minutes # None
                    THEN data.minutes * SecondsPerMinute
                    ELSE data.seconds
             S1 == [S EXCEPT !.tour_length_seconds = len]
             S2 == IF ~S1.timer_paused
                   THEN [S1 EXCEPT !.start_time = t]
                   ELSE [S1 EXCEPT !.time_remaining_on_pause = S1.tour_length_seconds]
         IN  {Outcome(P, S2, 200, 0)}

---------------------------------------------------------------------------
(* init_db: the settings row with id 1 *)
InitialSetting ==
    [tour_length_seconds |-> DefaultTourLength, timer_paused |-> FALSE,
     start_time |-> None, time_remaining_on_pause |-> None]

Init ==
    /\ persons = <<>>
    /\ setting = InitialSetting
    /\ now = 0
    /\ resp = [op |-> "init", code |-> 0, id |-> 0, popped |-> 0]
    /\ passed_log = <<>>
    /\ inflight = [w \in Workers |-> [pc |-> "idle", tour_len |-> 0, first |-> 0]]

---------------------------------------------------------------------------
(* Request inputs *)

ReorderInputs == UNION {[1..n -> Ids] : n \in 0..MaxPersons}
StatusInputs == {"waiting", "passed", "done"}
PositionInputs == {None} \cup 0..(MaxPersons + 1)
TourLengthInputs ==
    {[minutes |-> None, seconds |-> None], [minutes |-> 0, seconds |-> 1]}
    \cup {[minutes |-> None, seconds |-> x] : x \in (0 - 1)..MaxSeconds}

(* history: the passed rows, least recently passed first *)
LogAfter(log, P1, passed) ==
    SelectSeq(log, LAMBDA i : P1[i].status = "passed"
                              /\ \A k \in 1..Len(passed) : passed[k] # i) \o passed

(* a handler runs to completion at clock reading t and answers *)
Handle(op, outcomes, t) ==
    /\ \E r \in outcomes :
        /\ persons' = r.persons
        /\ setting' = r.setting
        /\ resp' = [op |-> op, code |-> r.code, id |-> r.id, popped |-> Len(r.passed)]
        /\ passed_log' = LogAfter(passed_log, r.persons, r.passed)
    /\ now' = t
    /\ UNCHANGED inflight

---------------------------------------------------------------------------
(* One action per route *)

register ==
    \E t \in (now + 1)..MaxTime :
        /\ Len(persons) < MaxPersons
        /\ Handle("register", add_person(persons, setting, t), t)

api_status ==
    \E t \in (now + 1)..MaxTime :
        Handle("status", process_timer_advances(persons, setting, t), t)

api_next ==
    \E t \in (now + 1)..MaxTime :
        Handle("next", advance_next(persons, setting, t), t)

api_back ==
    \E t \in (now + 1)..MaxTime :
        Handle("back", go_back(persons, setting, t), t)

api_pause ==
    \E t \in (now + 1)..MaxTime :
        Handle("pause", toggle_pause(persons, setting, t), t)

api_reorder ==
    \E t \in (now + 1)..MaxTime : \E ids \in ReorderInputs :
        Handle("reorder", reorder_waiting(persons, setting, ids, t), t)

api_move ==
    \E t \in (now + 1)..MaxTime :
        \E pid \in Ids : \E to_status \in StatusInputs : \E to_pos \in PositionInputs :
            Handle("move", move_person_to(persons, setting, pid, to_status, to_pos, t), t)

api_set_tour_length ==
    \E t \in (now + 1)..MaxTime : \E data \in TourLengthInputs :
        Handle("set_tour_length", set_tour_length(persons, setting, data, t), t)

(* /api/clear: delete every row, recreate the default settings *)
api_clear ==
    \E t \in (now + 1)..MaxTime :
        /\ persons' = <<>>
        /\ setting' = InitialSetting
        /\ resp' = [op |-> "clear", code |-> 200, id |-> 0, popped |-> 0]
        /\ passed_log' = <<>>
        /\ now' = t
        /\ UNCHANGED inflight

Next ==
    \/ register
    \/ api_status
    \/ api_next
    \/ api_back
    \/ api_pause
    \/ api_reorder
    \/ api_move
    \/ api_set_tour_length
    \/ api_clear

Spec == Init /\ [][Next]_vars

---------------------------------------------------------------------------
(* /api/status served by concurrent workers.  The code takes no lock, so a
   request is a sequence of committed steps and other requests may run
   between any two of them.  A step reads the rows as they are committed
   when it runs (instances expire at every commit) and keeps only its
   locals tour_len and first. *)

Respond(op) == resp' = [op |-> op, code |-> 200, id |-> 0, popped |-> 0]

(* one pass of lines 76-104 with the local tour_len: the loop test, the pop
   and its commit, or the break and the answer *)
PopOrAnswer(w, tour_len, t) ==
    \E r \in pop_step(persons, setting, tour_len, t) :
        /\ persons' = r.persons
        /\ setting' = r.setting
        /\ IF r.more
           THEN /\ inflight' = [inflight EXCEPT ![w] =
                        [pc |-> "popped", tour_len |-> tour_len, first |-> r.first]]
                /\ passed_log' = LogAfter(passed_log, r.persons, <<r.first>>)
                /\ UNCHANGED resp
           ELSE /\ inflight' = [inflight EXCEPT ![w] =
                        [pc |-> "idle", tour_len |-> 0, first |-> 0]]
                /\ Respond("status")
                /\ UNCHANGED passed_log

(* lines 70-104: read the settings, return early or run the first pass *)
status_begin(w) ==
    \E t \in (now + 1)..MaxTime :
        /\ inflight[w].pc = "idle"
        /\ now' = t
        /\ IF setting.timer_paused \/ setting.start_time = None
           THEN /\ Respond("status")
                /\ UNCHANGED <<persons, setting, passed_log, inflight>>
           ELSE PopOrAnswer(w, setting.tour_length_seconds, t)

(* lines 76-104 of a later pass *)
status_pop(w) ==
    \E t \in (now + 1)..MaxTime :
        /\ inflight[w].pc = "loop"
        /\ now' = t
        /\ PopOrAnswer(w, inflight[w].tour_len, t)

(* lines 106-111: the anchor update and its commit *)
status_anchor(w) ==
    \E t \in (now + 1)..MaxTime :
        /\ inflight[w].pc = "popped"
        /\ now' = t
        /\ setting' = anchor_step(persons, setting, inflight[w].tour_len)
        /\ inflight' = [inflight EXCEPT ![w].pc = "loop"]
        /\ UNCHANGED <<persons, resp, passed_log>>

NextConc ==
    \/ register
    \/ api_next
    \/ api_back
    \/ api_pause
    \/ api_reorder
    \/ api_move
    \/ api_set_tour_length
    \/ api_clear
    \/ \E w \in Workers : status_begin(w)
    \/ \E w \in Workers : status_pop(w)
    \/ \E w \in Workers : status_anchor(w)

SpecConc == Init /\ [][NextConc]_vars

---------------------------------------------------------------------------
(* Properties *)

PollTimes == (now + 1)..MaxTime

IsPermutationOfWaiting(ids, P) ==
    /\ Len(ids) = Cardinality(WaitingIds(P))
    /\ {ids[k] : k \in 1..Len(ids)} = WaitingIds(P)

PositionsAreOneToN(P) ==
    LET W == WaitingIds(P)
    IN  /\ {P[i].position : i \in W} = 1..Cardinality(W)
        /\ \A i, j \in W : P[i].position = P[j].position => i = j

(* C1 - Invariant I1: in every reachable state the positions of the waiting
   entries are exactly 1..N, each used once, N the number of waiting entries *)
C1_WaitingPositionsContiguous == PositionsAreOneToN(persons)

(* C2 - Invariant I4, running half: while not paused, start_time is set iff
   some entry is waiting, and time_remaining_on_pause is null *)
C2_RunningAnchorIffWaiting ==
    ~setting.timer_paused =>
        /\ (setting.start_time # None) <=> (WaitingIds(persons) # {})
        /\ setting.time_remaining_on_pause = None

(* C3 - Invariant I4, paused half: while paused, start_time is null and
   time_remaining_on_pause is set *)
C3_PausedAnchorCleared ==
    setting.timer_paused =>
        /\ setting.start_time = None
        /\ setting.time_remaining_on_pause # None

(* C4 - a catch-up run while not paused, when exactly k >= 1 full intervals
   have elapsed since the anchor a and N entries wait, passes exactly
   min(k, N) entries head first, stamps the i-th with a + i intervals,
   renumbers the rest 1..N-min(k,N) in their order, and leaves the anchor at
   a + k intervals if entries remain (k < N), else null *)
C4_CatchUpPassesElapsedIntervals ==
    \A t \in PollTimes :
        LET a == setting.start_time
            L == timedelta(setting.tour_length_seconds)
            W == WaitingIds(persons)
            N == Cardinality(W)
        IN  (~setting.timer_paused /\ a # None /\ L > 0 /\ t - a >= L) =>
            LET k == (t - a) \div L
                m == IF k < N THEN k ELSE N
            IN  \A r \in process_timer_advances(persons, setting, t) :
                  /\ Len(r.passed) = m
                  /\ \A i \in 1..m :
                        /\ persons[r.passed[i]].status = "waiting"
                        /\ persons[r.passed[i]].position = i
                        /\ r.persons[r.passed[i]].status = "passed"
                        /\ r.persons[r.passed[i]].passed_at = a + i * L
                  /\ WaitingIds(r.persons) = W \ {r.passed[i] : i \in 1..m}
                  /\ PositionsAreOneToN(r.persons)
                  /\ \A j \in WaitingIds(r.persons) :
                        r.persons[j].position = persons[j].position - m
                  /\ r.setting.start_time = IF k < N THEN a + k * L ELSE None

(* C5 - catch-up is idempotent: with the clock held fixed, a second run
   changes nothing the first run left, from every reachable state and also
   right after every served status poll *)
C5_CatchUpIdempotent ==
    /\ \A t \in PollTimes :
          \A r \in process_timer_advances(persons, setting, t) :
              process_timer_advances(r.persons, r.setting, t)
                  = {Outcome(r.persons, r.setting, 200, 0)}
    /\ resp.op = "status" =>
          process_timer_advances(persons, setting, now)
              = {Outcome(persons, setting, 200, 0)}

(* a status poll has just caught up through two or more elapsed intervals *)
C5_Witness == resp.op = "status" /\ resp.popped >= 2

(* C6 - requests run as serialized transactions: two concurrent catch-ups
   never both pass an entry for the same elapsed interval, i.e. two status
   requests in flight never hold pops stamped with the same interval end *)
C6_ConcurrentCatchUpsSerialized ==
    \A w1, w2 \in Workers :
        (/\ w1 # w2
         /\ inflight[w1].pc = "popped" /\ inflight[w2].pc = "popped"
         /\ inflight[w1].tour_len > 0 /\ inflight[w2].tour_len > 0
         /\ inflight[w1].first \in DOMAIN persons /\ inflight[w2].first \in DOMAIN persons
         /\ persons[inflight[w1].first].status = "passed"
         /\ persons[inflight[w2].first].status = "passed")
        => persons[inflight[w1].first].passed_at # persons[inflight[w2].first].passed_at

(* C7 - reorder is rejected, with nothing changed, whenever the id list is
   not exactly a permutation of the waiting ids *)
C7_ReorderRejectsNonPermutation ==
    \A t \in PollTimes : \A ids \in ReorderInputs :
        ~IsPermutationOfWaiting(ids, persons) =>
            reorder_waiting(persons, setting, ids, t) = {Outcome(persons, setting, 400, 0)}

(* the failures the claim lists, each answered 400 with rows and settings as
   they were *)
FailureCasesRejected(t) ==
    LET unchanged == {Outcome(persons, setting, 400, 0)}
    IN  /\ \A ids \in ReorderInputs :
              (\E k \in 1..Len(ids) : ids[k] \notin WaitingIds(persons))
                  => reorder_waiting(persons, setting, ids, t) = unchanged
        /\ \A pid \in Ids : \A st \in StatusInputs : \A pos \in PositionInputs :
              (pid \notin DOMAIN persons \/ st \notin {"waiting", "passed"})
                  => move_person_to(persons, setting, pid, st, pos, t) = unchanged
        /\ WaitingIds(persons) = {} => advance_next(persons, setting, t) = unchanged
        /\ PassedIds(persons) = {} => go_back(persons, setting, t) = unchanged
        /\ set_tour_length(persons, setting, [minutes |-> None, seconds |-> None], t)
              = unchanged

(* C8 - every operation that signals a failure leaves all entries and the
   timer state as they were: the listed failures are rejected without
   effect, and no request answered 400 changes a row or the settings *)
C8_FailuresLeaveStateUnchanged ==
    /\ [](\A t \in PollTimes : FailureCasesRejected(t))
    /\ [][resp'.code = 400 => (persons' = persons /\ setting' = setting)]_vars

(* a reorder naming a foreign id has just been refused with entries waiting
   and passed *)
C8_Witness ==
    /\ resp.op = "reorder" /\ resp.code = 400
    /\ Cardinality(WaitingIds(persons)) >= 2 /\ PassedIds(persons) # {}

(* C9 - goBack right after a successful advanceNext undoes it: the former
   head waits at position 1 with passed_at cleared and every other waiting
   entry has the position it had before the advance *)
C9_GoBackUndoesAdvance ==
    \A t \in PollTimes :
        \A r1 \in advance_next(persons, setting, t) :
            r1.code = 200 =>
                \A r2 \in go_back(r1.persons, r1.setting, t + 1) :
                    /\ r2.code = 200
                    /\ r2.id = r1.id
                    /\ r2.persons[r1.id] =
                          [status |-> "waiting", position |-> 1, passed_at |-> None]
                    /\ \A i \in WaitingIds(persons) \ {r1.id} :
                          r2.persons[i] = persons[i]

(* C10 - goBack reinserts the entry that was passed (or re-stamped) last in
   operation order *)
C10_GoBackTakesMostRecentlyPassed ==
    \A t \in PollTimes :
        \A r \in go_back(persons, setting, t) :
            r.code = 200 => r.id = passed_log[Len(passed_log)]

(* pause at clock reading t, then resume at the same reading *)
PauseThenResume(P, S, t) ==
    UNION {toggle_pause(r.persons, r.setting, t) : r \in toggle_pause(P, S, t)}

(* C11 - pause followed at once by resume restores the clock projection:
   from every running state, also with nobody waiting, the remaining seconds
   after the resume equal those just before the pause, the timer runs again
   and time_remaining_on_pause is null *)
C11_PauseResumeRestoresProjection ==
    \A t \in PollTimes :
        ~setting.timer_paused =>
            \A r \in PauseThenResume(persons, setting, t) :
                /\ compute_time_remaining_seconds(r.setting, t)
                      = compute_time_remaining_seconds(setting, t)
                /\ ~r.setting.timer_paused
                /\ r.setting.time_remaining_on_pause = None

(* the length a set-tour-length body asks for: minutes are looked at first *)
RequestedLength(data) ==
    IF data.minutes # None THEN data.minutes * SecondsPerMinute ELSE data.seconds

HasLength(data) == data.minutes # None \/ data.seconds # None

(* C12 - set-tour-length validates that the value is positive: a zero or
   negative value is refused with the tour length, the anchor and the frozen
   remainder unchanged, so the tour length is positive in every reachable
   state *)
C12_NonPositiveIntervalRejected ==
    /\ setting.tour_length_seconds > 0
    /\ \A t \in PollTimes : \A data \in TourLengthInputs :
          (HasLength(data) /\ RequestedLength(data) <= 0) =>
              set_tour_length(persons, setting, data, t)
                  = {Outcome(persons, setting, 400, 0)}

(* C13 - a successful tour-length change does not prorate: while running the
   anchor becomes now, so the remaining time is the full new length; while
   paused the frozen remainder becomes the full new length; no row changes *)
C13_LengthChangeRestartsInterval ==
    /\ \A t \in PollTimes : \A data \in TourLengthInputs :
          (HasLength(data) /\ RequestedLength(data) > 0) =>
              \A r \in set_tour_length(persons, setting, data, t) :
                  /\ r.code = 200
                  /\ r.persons = persons
                  /\ r.setting.tour_length_seconds = RequestedLength(data)
                  /\ r.setting.timer_paused = setting.timer_paused
                  /\ IF setting.timer_paused
                     THEN /\ r.setting.time_remaining_on_pause = RequestedLength(data)
                          /\ r.setting.start_time = setting.start_time
                     ELSE /\ r.setting.start_time = t
                          /\ compute_time_remaining_seconds(r.setting, t)
                                = RequestedLength(data)
                          /\ r.setting.time_remaining_on_pause
                                = setting.time_remaining_on_pause
    /\ (resp.op = "set_tour_length" /\ resp.code = 200 /\ setting.tour_length_seconds > 0) =>
          IF setting.timer_paused
          THEN setting.time_remaining_on_pause = setting.tour_length_seconds
          ELSE setting.start_time = now
                  /\ compute_time_remaining_seconds(setting, now)
                        = setting.tour_length_seconds

(* the length has just been changed, after part of the head's interval had
   elapsed, with entries waiting and passed *)
C13_Witness ==
    /\ resp.op = "set_tour_length" /\ resp.code = 200
    /\ ~setting.timer_paused /\ setting.tour_length_seconds > 0
    /\ now >= 4
    /\ WaitingIds(persons) # {} /\ PassedIds(persons) # {}

(* C14 - changing the tour length while the timer runs with an active head
   preserves the head's remaining time: the projection right after the change
   equals the projection right before it *)
C14_LengthChangePreservesRemaining ==
    \A t \in PollTimes : \A data \in TourLengthInputs :
        (/\ HasLength(data) /\ RequestedLength(data) > 0
         /\ ~setting.timer_paused /\ setting.start_time # None
         /\ WaitingIds(persons) # {}) =>
            \A r \in set_tour_length(persons, setting, data, t) :
                compute_time_remaining_seconds(r.setting, t)
                    = compute_time_remaining_seconds(setting, t)

(* C15 - register creates a waiting entry at position N + 1 (1 when nobody
   waits) and changes no existing entry; running with nobody waiting, the new
   entry becomes head with start_time = now and a full interval remaining;
   with somebody waiting the anchor is unchanged; paused with the frozen
   remainder unset, it is set to the full interval *)
C15_AddEntryAppends ==
    \A t \in PollTimes :
        \A r \in add_person(persons, setting, t) :
            LET W == WaitingIds(persons)
                new == Len(persons) + 1
            IN  /\ r.code = 201 /\ r.id = new
                /\ Len(r.persons) = new
                /\ r.persons[new] = [status |-> "waiting",
                                     position |-> Cardinality(W) + 1,
                                     passed_at |-> None]
                /\ \A i \in DOMAIN persons : r.persons[i] = persons[i]
                /\ (~setting.timer_paused /\ W = {}) =>
                      /\ r.setting.start_time = t
                      /\ compute_time_remaining_seconds(r.setting, t)
                            = setting.tour_length_seconds
                /\ W # {} => r.setting.start_time = setting.start_time
                /\ (setting.timer_paused /\ setting.time_remaining_on_pause = None) =>
                      r.setting.time_remaining_on_pause = setting.tour_length_seconds
                /\ r.setting.tour_length_seconds = setting.tour_length_seconds
                /\ r.setting.timer_paused = setting.timer_paused

(* C16 - next, with somebody waiting, passes exactly the entry at position 1
   whatever time has elapsed, stamps it now with position null, decrements
   every other waiting position by one, sets start_time = now if an entry
   still waits, else null, and while paused sets the frozen remainder to the
   full interval *)
C16_AdvanceNextPassesHead ==
    \A t \in PollTimes :
        LET W == WaitingIds(persons)
        IN  W # {} =>
            \A r \in advance_next(persons, setting, t) :
                /\ r.code = 200
                /\ r.id \in W /\ persons[r.id].position = 1
                /\ r.persons[r.id] =
                      [status |-> "passed", position |-> None, passed_at |-> t]
                /\ \A i \in W \ {r.id} :
                      r.persons[i] = [persons[i] EXCEPT !.position = @ - 1]
                /\ \A i \in DOMAIN persons \ W : r.persons[i] = persons[i]
                /\ r.setting.start_time = IF W \ {r.id} # {} THEN t ELSE None
                /\ setting.timer_paused =>
                      r.setting.time_remaining_on_pause = setting.tour_length_seconds

(* the waiting ids other than x, front to back: lower position first *)
Before(P, x, i, j) ==
    /\ i \in WaitingIds(P) \ {x} /\ j \in WaitingIds(P) \ {x}
    /\ P[i].position < P[j].position

Clamp(v, lo, hi) == IF v < lo THEN lo ELSE (IF v > hi THEN hi ELSE v)

(* the timer after a move that took effect *)
TimerResetAfterMove(P1, S, S1, t) ==
    IF S.timer_paused
    THEN S1.time_remaining_on_pause = S.tour_length_seconds
    ELSE S1.start_time = IF WaitingIds(P1) # {} THEN t ELSE None

(* C17 - move to waiting places the entry at the clamped target position
   (clamp(target or 1, 1, N + 1) from passed, clamp(target, 1, N) within the
   waiting list, nothing when the target is omitted) and keeps the order of
   the other waiting entries; move to passed of a waiting entry removes it and
   closes the gap; every move that takes effect resets the timer *)
C17_MovePlacesAtClampedTarget ==
    \A t \in PollTimes : \A pid \in DOMAIN persons : \A pos \in PositionInputs :
        LET W == WaitingIds(persons)
            N == Cardinality(W)
        IN  /\ \A r \in move_person_to(persons, setting, pid, "waiting", pos, t) :
                  /\ r.code = 200
                  /\ IF persons[pid].status = "passed"
                     THEN /\ r.persons[pid] =
                                [status |-> "waiting",
                                 position |-> Clamp(IF pos = None THEN 1 ELSE pos, 1, N + 1),
                                 passed_at |-> None]
                          /\ TimerResetAfterMove(r.persons, setting, r.setting, t)
                     ELSE IF pos = None
                     THEN r.persons = persons /\ r.setting = setting
                     ELSE /\ r.persons[pid] =
                                [persons[pid] EXCEPT !.position = Clamp(pos, 1, N)]
                          /\ IF r.persons = persons
                             THEN r.setting = setting
                             ELSE TimerResetAfterMove(r.persons, setting, r.setting, t)
                  /\ WaitingIds(r.persons) = W \cup {pid}
                  /\ \A i, j \in W :
                        Before(persons, pid, i, j) => Before(r.persons, pid, i, j)
                  /\ \A i \in PassedIds(persons) \ {pid} : r.persons[i] = persons[i]
            /\ persons[pid].status = "waiting" =>
                  \A r \in move_person_to(persons, setting, pid, "passed", pos, t) :
                      /\ r.code = 200
                      /\ r.persons[pid] =
                            [status |-> "passed", position |-> None, passed_at |-> t]
                      /\ WaitingIds(r.persons) = W \ {pid}
                      /\ \A i \in W \ {pid} :
                            r.persons[i].position = persons[i].position
                                - (IF persons[i].position > persons[pid].position
                                   THEN 1 ELSE 0)
                      /\ \A i, j \in W :
                            Before(persons, pid, i, j) => Before(r.persons, pid, i, j)
                      /\ \A i \in PassedIds(persons) : r.persons[i] = persons[i]
                      /\ TimerResetAfterMove(r.persons, setting, r.setting, t)
            /\ persons[pid].status = "passed" =>
                  \A r \in move_person_to(persons, setting, pid, "passed", pos, t) :
                      /\ r.code = 200
                      /\ TimerResetAfterMove(r.persons, setting, r.setting, t)

(* what the claim says of reorder(ids) at clock reading t: accepted, every id
   at its index in the list, no other row changed, the timer reset *)
ReorderedAsListed(ids, t) ==
    \A r \in reorder_waiting(persons, setting, ids, t) :
        /\ r.code = 200
        /\ \A k \in 1..Len(ids) :
              r.persons[ids[k]] = [persons[ids[k]] EXCEPT !.position = k]
        /\ \A i \in PassedIds(persons) : r.persons[i] = persons[i]
        /\ DOMAIN r.persons = DOMAIN persons
        /\ IF setting.timer_paused
           THEN r.setting.time_remaining_on_pause = setting.tour_length_seconds
           ELSE r.setting.start_time = t

(* C18 - reorder with an exact permutation of the waiting ids gives each id
   the position of its index in the list, changes no passed entry and resets
   the timer (running: start_time = now; paused: the frozen remainder is the
   full interval) *)
C18_PermutationReorders ==
    \A t \in PollTimes : \A ids \in ReorderInputs :
        IsPermutationOfWaiting(ids, persons) => ReorderedAsListed(ids, t)

(* C18 as amended - the same for a permutation that is not empty; the empty
   list is refused with nothing changed *)
C18_NonEmptyPermutationReorders ==
    \A t \in PollTimes : \A ids \in ReorderInputs :
        /\ (IsPermutationOfWaiting(ids, persons) /\ Len(ids) > 0)
              => ReorderedAsListed(ids, t)
        /\ Len(ids) = 0 =>
              reorder_waiting(persons, setting, ids, t)
                  = {Outcome(persons, setting, 400, 0)}

(* a reorder has just put entry 2 in front of entry 1, both waiting in a
   well-formed list, with the running anchor reset to now *)
C18_Witness ==
    /\ resp.op = "reorder" /\ resp.code = 200
    /\ {1, 2} \subseteq WaitingIds(persons)
    /\ PositionsAreOneToN(persons)
    /\ persons[2].position < persons[1].position
    /\ ~setting.timer_paused /\ setting.start_time = now

(* C19 - Invariant I2: in every reachable state an entry has a position iff
   it is waiting; a passed entry has position null and passed_at set; a
   waiting entry has passed_at null *)
C19_PositionIffWaiting ==
    \A i \in DOMAIN persons :
        /\ (persons[i].position # None) <=> (persons[i].status = "waiting")
        /\ persons[i].status = "passed" =>
              (persons[i].position = None /\ persons[i].passed_at # None)
        /\ persons[i].status = "waiting" => persons[i].passed_at = None

(* a move has just put an entry among the waiting ones, two or more now
   wait and another entry is still passed *)
C19_Witness ==
    /\ resp.op = "move" /\ resp.code = 200 /\ resp.id \in WaitingIds(persons)
    /\ Cardinality(WaitingIds(persons)) >= 2
    /\ PassedIds(persons) # {}

(* C20 - catch-up heals itself when interrupted: if a run is aborted after
   any of its commits (for one, after the head is committed as passed and
   before the anchor is moved), the next catch-up at the same clock reading
   ends in a state an uninterrupted catch-up would have produced: the same
   rows passed with the same passed_at, the same anchor (stated for positive
   tour lengths) *)
C20_InterruptedCatchUpHeals ==
    \A t \in PollTimes :
        (/\ ~setting.timer_paused /\ setting.start_time # None
         /\ setting.tour_length_seconds > 0) =>
            \A m \in timer_commits(persons, setting, setting.tour_length_seconds, t) :
                \A r2 \in process_timer_advances(m.persons, m.setting, t) :
                    \E r \in process_timer_advances(persons, setting, t) :
                        r2.persons = r.persons /\ r2.setting = r.setting

(* the scenario: tour length 1 s, x then y the only waiting entries, the
   timer running *)
ScenarioXY(x, y) ==
    /\ WaitingIds(persons) = {x, y}
    /\ persons[x].position = 1 /\ persons[y].position = 2
    /\ ~setting.timer_paused
    /\ setting.tour_length_seconds = 1
    /\ setting.start_time # None

(* the readings of a poll that finds the anchor 2 seconds in the past: two
   whole seconds elapsed and the third not yet *)
TwoSecondsLater ==
    {t \in PollTimes : /\ t - setting.start_time >= timedelta(2)
                       /\ t - setting.start_time < timedelta(3)}

(* C21 - scenario: tour length 1 s, X then Y enqueued, the anchor 2 seconds
   in the past; one catch-up passes X only, leaves Y waiting at position 1
   and leaves start_time at the original anchor plus 1 second *)
C21_ScenarioPassesXOnly ==
    \A x, y \in DOMAIN persons :
        ScenarioXY(x, y) =>
            \A t \in TwoSecondsLater :
                \A r \in process_timer_advances(persons, setting, t) :
                    /\ r.passed = <<x>>
                    /\ r.persons[y].status = "waiting" /\ r.persons[y].position = 1
                    /\ r.setting.start_time = setting.start_time + timedelta(1)

(* C21 as amended - in that scenario one catch-up passes X and then Y, stamped
   at the anchor plus 1 and plus 2 seconds, nobody is left waiting and
   start_time is null *)
C21_ScenarioPassesBoth ==
    \A x, y \in DOMAIN persons :
        ScenarioXY(x, y) =>
            \A t \in TwoSecondsLater :
                \A r \in process_timer_advances(persons, setting, t) :
                    /\ r.passed = <<x, y>>
                    /\ r.persons[x] = [status |-> "passed", position |-> None,
                                       passed_at |-> setting.start_time + timedelta(1)]
                    /\ r.persons[y] = [status |-> "passed", position |-> None,
                                       passed_at |-> setting.start_time + timedelta(2)]
                    /\ WaitingIds(r.persons) = {}
                    /\ r.setting.start_time = None

(* a poll has just served the scenario: entries 1 and 2 passed one second
   apart by one catch-up of tour length 1 s, nobody waiting, no anchor *)
C21_Witness ==
    /\ resp.op = "status" /\ resp.popped = 2
    /\ setting.tour_length_seconds = 1 /\ ~setting.timer_paused
    /\ Len(persons) = 2 /\ PassedIds(persons) = {1, 2}
    /\ persons[2].passed_at = persons[1].passed_at + timedelta(1)
    /\ now >= persons[2].passed_at /\ now < persons[2].passed_at + timedelta(1)
    /\ setting.start_time = None

(* C22 - catch-up always terminates: from every reachable state, whatever
   tour length the system accepted and however many intervals have elapsed,
   the loop makes at most N + 1 passes, N the number of entries waiting when
   it starts, and it passes at most N entries, each one waiting at the start *)
C22_CatchUpLoopBounded ==
    \A t \in PollTimes :
        LET W == WaitingIds(persons)
            N == Cardinality(W)
        IN  /\ (~setting.timer_paused /\ setting.start_time # None) =>
                  \A n \in timer_iterations(persons, setting,
                                            setting.tour_length_seconds, t, N + 2) :
                      n <= N + 1
            /\ \A r \in process_timer_advances(persons, setting, t) :
                  /\ Len(r.passed) <= N
                  /\ \A k \in 1..Len(r.passed) : r.passed[k] \in W

(* a poll under a tour length of zero or less has just passed a full list in
   one run: N passes that pop and the one that breaks *)
C22_Witness ==
    /\ resp.op = "status" /\ resp.popped = MaxPersons
    /\ setting.tour_length_seconds <= 0
    /\ WaitingIds(persons) = {}

(* the clock reading at which the interval of waiting entry i ends: the
   anchor plus its position times the tour length *)
Deadline(P, S, i) == S.start_time + P[i].position * timedelta(S.tour_length_seconds)

(* C23 - with the timer running and nothing but status polls: no running
   state has entries waiting and a null anchor; the entry at position p is
   passed by the first poll at or after the anchor plus p tour lengths, so
   that every waiting entry is passed in the end; and a served poll leaves
   no entry waiting past that reading *)
C23_PollsPassEveryWaitingEntry ==
    /\ ~(~setting.timer_paused /\ WaitingIds(persons) # {} /\ setting.start_time = None)
    /\ \A t \in PollTimes :
          (~setting.timer_paused /\ setting.start_time # None) =>
              \A i \in WaitingIds(persons) :
                  t >= Deadline(persons, setting, i) =>
                      \A r \in process_timer_advances(persons, setting, t) :
                          r.persons[i].status = "passed"
    /\ (resp.op = "status" /\ ~setting.timer_paused /\ setting.start_time # None) =>
          \A i \in WaitingIds(persons) : now < Deadline(persons, setting, i)

====
